---- MODULE Spec2Model ----
(***************************************************************************)
(* Model of src/Methane_Model_config.py: the input validators              *)
(* of ConfigUtils, the structure codec (ConfigUtils.dict_to_xml            *)
(* and parse_xml_config.recursive_parse) and the interactive assembler     *)
(* (model_setup.create_config_file and the prompt loops it runs).          *)
(*                                                                         *)
(* Texts (operator responses, leaf texts of the document) are sequences of *)
(* one-character strings, so that int(), float(), str() and upper() are    *)
(* computed character by character.  Python values are tagged records.     *)
(***************************************************************************)
EXTENDS Integers, Sequences, FiniteSets, TLC

----------------------------------------------------------------------------
(* Python values *)

None == [k |-> "None"]
PyInt(n) == [k |-> "int", v |-> n]
\* a finite float (-1)^neg * m / 10^e, with m not a multiple of 10 unless e = 0
PyFloat(neg, m, e) == [k |-> "float", neg |-> neg, m |-> m, e |-> e]
NaN == [k |-> "nan"]
Inf(neg) == [k |-> "inf", neg |-> neg]
PyStr(s) == [k |-> "str", s |-> s]
\* a pandas Timestamp at instant t, timezone-aware or naive; NaT is pandas' "not a time"
Timestamp(t, tz) == [k |-> "Timestamp", t |-> t, tz |-> tz]
NaT == [k |-> "NaT"]

\* bool(v): None, 0 and 0.0 are falsy; nan, inf, NaT and every Timestamp are truthy
Truthy(v) ==
    CASE v.k = "None" -> FALSE
      [] v.k = "int" -> v.v # 0
      [] v.k = "float" -> v.m # 0
      [] v.k = "str" -> v.s # <<>>
      [] OTHER -> TRUE

----------------------------------------------------------------------------
(* Characters *)

Digits == <<"0", "1", "2", "3", "4", "5", "6", "7", "8", "9">>
Lowers == <<"a", "b", "c", "d", "e", "f", "g", "h", "i", "j", "k", "l", "m",
            "n", "o", "p", "q", "r", "s", "t", "u", "v", "w", "x", "y", "z">>
Uppers == <<"A", "B", "C", "D", "E", "F", "G", "H", "I", "J", "K", "L", "M",
            "N", "O", "P", "Q", "R", "S", "T", "U", "V", "W", "X", "Y", "Z">>

IsDigit(c) == \E i \in 1..Len(Digits) : Digits[i] = c
DigitVal(c) == (CHOOSE i \in 1..Len(Digits) : Digits[i] = c) - 1
AllDigits(s) == \A i \in 1..Len(s) : IsDigit(s[i])

RECURSIVE DigitsVal(_)
DigitsVal(s) ==
    IF s = <<>> THEN 0
    ELSE 10 * DigitsVal(SubSeq(s, 1, Len(s) - 1)) + DigitVal(s[Len(s)])

RECURSIVE NatStr(_)
NatStr(n) ==
    IF n < 10 THEN <<Digits[n + 1]>>
    ELSE NatStr(n \div 10) \o <<Digits[(n % 10) + 1]>>

RECURSIVE Pow10(_)
Pow10(e) == IF e = 0 THEN 1 ELSE 10 * Pow10(e - 1)

UpperChar(c) ==
    IF \E i \in 1..Len(Lowers) : Lowers[i] = c
    THEN Uppers[CHOOSE i \in 1..Len(Lowers) : Lowers[i] = c]
    ELSE c
LowerChar(c) ==
    IF \E i \in 1..Len(Uppers) : Uppers[i] = c
    THEN Lowers[CHOOSE i \in 1..Len(Uppers) : Uppers[i] = c]
    ELSE c

\* the response taken as typed, with no case normalisation
upper_missing(s) == s

\* str.upper()
upper(s) == [i \in 1..Len(s) |-> UpperChar(s[i])]
lower(s) == [i \in 1..Len(s) |-> LowerChar(s[i])]

\* str.strip() of blanks, as int() and float() apply it to their argument
RECURSIVE LStrip(_)
LStrip(s) == IF s # <<>> /\ s[1] = " " THEN LStrip(Tail(s)) ELSE s
RECURSIVE RStrip(_)
RStrip(s) ==
    IF s # <<>> /\ s[Len(s)] = " " THEN RStrip(SubSeq(s, 1, Len(s) - 1)) ELSE s
Strip(s) == RStrip(LStrip(s))

HasSign(s) == s # <<>> /\ s[1] \in {"+", "-"}
Unsigned(s) == IF HasSign(s) THEN Tail(s) ELSE s
IsNeg(s) == s # <<>> /\ s[1] = "-"

----------------------------------------------------------------------------
(* int(text), float(text), str(value) *)

\* int(text): blanks stripped, an optional sign, one or more decimal digits;
\* anything else raises ValueError (ok = FALSE)
py_int(s) ==
    LET t == Strip(s)
        b == Unsigned(t)
    IN  IF b # <<>> /\ AllDigits(b)
        THEN [ok |-> TRUE,
              v |-> PyInt(IF IsNeg(t) THEN 0 - DigitsVal(b) ELSE DigitsVal(b))]
        ELSE [ok |-> FALSE, v |-> None]

RECURSIVE NormFloat(_, _, _)
NormFloat(neg, m, e) ==
    IF e > 0 /\ m % 10 = 0 THEN NormFloat(neg, m \div 10, e - 1)
    ELSE PyFloat(neg, m, e)

Dots(s) == {i \in 1..Len(s) : s[i] = "."}

\* float(text): blanks stripped, an optional sign, then nan / inf / infinity
\* in any case, or digits with at most one decimal point and at least one
\* digit; anything else raises ValueError (ok = FALSE).  Exponents are not
\* modelled: no text of the model holds an exponent.
py_float(s) ==
    LET t == Strip(s)
        b == Unsigned(t)
        neg == IsNeg(t)
        lb == lower(b)
        p == IF Dots(b) = {} THEN Len(b) + 1 ELSE CHOOSE i \in Dots(b) : TRUE
        ip == SubSeq(b, 1, p - 1)
        fp == SubSeq(b, p + 1, Len(b))
    IN  CASE lb = <<"n", "a", "n">> -> [ok |-> TRUE, v |-> NaN]
          [] lb \in {<<"i", "n", "f">>, <<"i", "n", "f", "i", "n", "i", "t", "y">>} ->
                [ok |-> TRUE, v |-> Inf(neg)]
          [] Cardinality(Dots(b)) <= 1 /\ AllDigits(ip) /\ AllDigits(fp)
             /\ Len(ip) + Len(fp) > 0 ->
                [ok |-> TRUE, v |-> NormFloat(neg, DigitsVal(ip \o fp), Len(fp))]
          [] OTHER -> [ok |-> FALSE, v |-> None]

\* value < 0 for an int or a float (nan compares False with everything)
LessThanZero(v) ==
    CASE v.k = "int" -> v.v < 0
      [] v.k = "float" -> v.neg /\ v.m # 0
      [] v.k = "inf" -> v.neg
      [] OTHER -> FALSE

\* the fraction digits of m / 10^e, e of them, or "0" for a whole number
FracStr(m, e) ==
    IF e = 0 THEN <<"0">>
    ELSE LET f == NatStr(m % Pow10(e))
         IN  [i \in 1..(e - Len(f)) |-> "0"] \o f

\* str(value) as dict_to_xml writes it into a leaf
py_str(v) ==
    CASE v.k = "None" -> <<"N", "o", "n", "e">>
      [] v.k = "int" ->
            (IF v.v < 0 THEN <<"-">> ELSE <<>>) \o NatStr(IF v.v < 0 THEN 0 - v.v ELSE v.v)
      [] v.k = "float" ->
            (IF v.neg THEN <<"-">> ELSE <<>>) \o NatStr(v.m \div Pow10(v.e))
            \o <<".">> \o FracStr(v.m, v.e)
      [] v.k = "nan" -> <<"n", "a", "n">>
      [] v.k = "inf" -> (IF v.neg THEN <<"-">> ELSE <<>>) \o <<"i", "n", "f">>
      [] v.k = "str" -> v.s

----------------------------------------------------------------------------
(* Validators *)

\* validate_integer rejecting zero as well (value <= min_value)
validate_integer_positive(s) ==
    LET p == py_int(s)
    IN  IF ~p.ok THEN [ret |-> None, msg |-> "Error: Please enter an integer"]
        ELSE IF p.v.v <= 0
             THEN [ret |-> None, msg |-> "Error: Please enter an integer greater than 0"]
             ELSE [ret |-> p.v, msg |-> ""]

\* validate_integer: [ret, msg]
validate_integer(s) ==
    LET p == py_int(s)
    IN  IF ~p.ok THEN [ret |-> None, msg |-> "Error: Please enter an integer"]
        ELSE IF p.v.v < 0
             THEN [ret |-> None, msg |-> "Error: Please enter an integer greater than 0"]
             ELSE [ret |-> p.v, msg |-> ""]

\* validate_float: [ret, msg]
validate_float(s) ==
    LET p == py_float(s)
    IN  IF ~p.ok THEN [ret |-> None, msg |-> "Error: Please enter a number"]
        ELSE IF LessThanZero(p.v)
             THEN [ret |-> None, msg |-> "Error: Please enter a number greater than 0"]
             ELSE [ret |-> p.v, msg |-> ""]

----------------------------------------------------------------------------
(* Dates.  An instant is the integer YYYYMMDD of its day, so that instants *)
(* compare as dates do; the time of day is not modelled.                   *)

Pad2(n) == IF n < 10 THEN <<"0">> \o NatStr(n) ELSE NatStr(n)
YearOf(t) == t \div 10000
MonthOf(t) == (t \div 100) % 100
DayOf(t) == t % 100

\* strftime('%Y-%m-%d') of a Timestamp or of datetime.now()
strftime_date(t) == NatStr(YearOf(t)) \o <<"-">> \o Pad2(MonthOf(t)) \o <<"-">> \o Pad2(DayOf(t))
\* strftime('%Y-%m-%d %H:%M:%S'); the time of day is held at noon
strftime_stamp(t) == strftime_date(t) \o <<" ", "1", "2", ":", "0", "0", ":", "0", "0">>

\* the years pandas' nanosecond Timestamp can hold
InBounds(y) == 1678 <= y /\ y <= 2261

IsoZ == <<"T", "0", "0", ":", "0", "0", "Z">>

\* pd.to_datetime(text, errors="coerce") on the texts of the model:
\*   NN-NN-YYYY is read month first, and day first when the first number
\*   cannot be a month; YYYY-MM-DD is ISO, and with the suffix T00:00Z it is
\*   a timezone-aware Timestamp; every other text, and every date outside
\*   the Timestamp range, is coerced to NaT
to_datetime(s) ==
    LET num(a, b) == DigitsVal(SubSeq(s, a, b))
        dig(a, b) == AllDigits(SubSeq(s, a, b))
        mk(y, m, d, tz) ==
            IF InBounds(y) /\ m \in 1..12 /\ d \in 1..31
            THEN Timestamp(y * 10000 + m * 100 + d, tz)
            ELSE NaT
    IN  CASE Len(s) = 10 /\ s[3] = "-" /\ s[6] = "-"
             /\ dig(1, 2) /\ dig(4, 5) /\ dig(7, 10) ->
                IF num(1, 2) <= 12 THEN mk(num(7, 10), num(1, 2), num(4, 5), FALSE)
                ELSE mk(num(7, 10), num(4, 5), num(1, 2), FALSE)
          [] Len(s) \in {10, 17} /\ s[5] = "-" /\ s[8] = "-"
             /\ dig(1, 4) /\ dig(6, 7) /\ dig(9, 10)
             /\ (Len(s) = 17 => SubSeq(s, 11, 17) = IsoZ) ->
                mk(num(1, 4), num(6, 7), num(9, 10), Len(s) = 17)
          [] OTHER -> NaT

MsgFuture == "Date cannot be greater than now"
MsgBadDate == "Error: Date input is incorrect. Please enter a valid date in DD-MM-YYYY format."

\* validate_date at clock value clk: [ret, msg].
\*   date > datetime.now() raises TypeError for a timezone-aware Timestamp
\*   (caught: None), is False for NaT (NaT is returned), and compares the
\*   instants otherwise
validate_date(s, clk) ==
    LET date == to_datetime(s)
    IN  CASE date.k = "NaT" -> [ret |-> date, msg |-> ""]
          [] date.tz -> [ret |-> None, msg |-> MsgBadDate]
          [] date.t > clk -> [ret |-> None, msg |-> MsgFuture]
          [] OTHER -> [ret |-> date, msg |-> ""]

\* a > b on what validate_date returns: False whenever NaT is involved
DateGreater(a, b) == a.k = "Timestamp" /\ b.k = "Timestamp" /\ a.t > b.t

----------------------------------------------------------------------------
(* Nested mappings and documents.  A dict is its items in insertion order; *)
(* an element has a tag, a text (None or a str) and its children.          *)

Dict(items) == [k |-> "dict", items |-> items]
Item(key, val) == [key |-> key, val |-> val]
PyList(items) == [k |-> "list", items |-> items]

Keys(d) == {d.items[i].key : i \in 1..Len(d.items)}
HasKey(d, key) == key \in Keys(d)
Get(d, key) == d.items[CHOOSE i \in 1..Len(d.items) : d.items[i].key = key].val
\* d[key] = val: replaces the value of an existing key, appends a new one
DictSet(d, key, val) ==
    IF HasKey(d, key)
    THEN Dict([i \in 1..Len(d.items) |->
                 IF d.items[i].key = key THEN Item(key, val) ELSE d.items[i]])
    ELSE Dict(Append(d.items, Item(key, val)))
\* d.update(e)
RECURSIVE DictUpdate(_, _)
DictUpdate(d, e) ==
    IF e.items = <<>> THEN d
    ELSE DictUpdate(DictSet(d, Head(e.items).key, Head(e.items).val), Dict(Tail(e.items)))

Quote == <<"'">>
RECURSIVE JoinRepr(_)
JoinRepr(xs) ==
    IF xs = <<>> THEN <<>>
    ELSE Quote \o xs[1].s \o Quote
         \o (IF Len(xs) > 1 THEN <<",", " ">> ELSE <<>>) \o JoinRepr(Tail(xs))

\* str(value) of a leaf value: a scalar, or a list of strings
leaf_text(v) == IF v.k = "list" THEN <<"[">> \o JoinRepr(v.items) \o <<"]">> ELSE py_str(v)

Element(tag, text, kids) == [tag |-> tag, text |-> text, kids |-> kids]

\* dict_to_xml.add_elements: one child per item, a branch for a dict and a
\* leaf holding str(value) otherwise
RECURSIVE add_elements(_, _)
add_elements(tag, d) ==
    Element(tag, None,
            [i \in 1..Len(d.items) |->
               IF d.items[i].val.k = "dict"
               THEN add_elements(d.items[i].key, d.items[i].val)
               ELSE Element(d.items[i].key, PyStr(leaf_text(d.items[i].val)), <<>>)])

RootTag == "ModelConfiguration"

\* the tree dict_to_xml builds
build_tree(data) == add_elements(RootTag, data)

\* tree.write followed by ET.parse: an element written with an empty text
\* is read back with no text
RECURSIVE reread(_)
reread(el) ==
    Element(el.tag,
            IF el.kids = <<>> /\ el.text = PyStr(<<>>) THEN None ELSE el.text,
            [i \in 1..Len(el.kids) |-> reread(el.kids[i])])

\* the document dict_to_xml leaves in the file, as ET.parse reads it
dict_to_xml(data) == reread(build_tree(data))

\* a leaf rule that keeps every number a float
parse_leaf_float(text) ==
    IF text.k = "None" THEN None
    ELSE LET p == py_float(text.s)
         IN  IF ~p.ok THEN text ELSE p.v

\* the leaf rule of recursive_parse: float(text), an int when is_integer();
\* the text itself when float() raises ValueError, or TypeError for no text
parse_leaf(text) ==
    IF text.k = "None" THEN None
    ELSE LET p == py_float(text.s)
         IN  IF ~p.ok THEN text
             ELSE IF p.v.k = "float" /\ p.v.e = 0
                  THEN PyInt(IF p.v.neg THEN 0 - p.v.m ELSE p.v.m)
                  ELSE p.v

RECURSIVE parse_kids(_, _)
RECURSIVE recursive_parse(_)
parse_kids(kids, result) ==
    IF kids = <<>> THEN result
    ELSE LET child == Head(kids)
         IN  parse_kids(Tail(kids),
                        DictSet(result, child.tag,
                                IF Len(child.kids) > 0 THEN recursive_parse(child)
                                ELSE parse_leaf(child.text)))
recursive_parse(element) == parse_kids(element.kids, Dict(<<>>))

\* dict_input of parse_xml_config: the decoded mapping under the root's tag
decode(root) == Dict(<<Item(root.tag, recursive_parse(root))>>)

\* parse_xml_config, lines 84-105: the five sections picked from mc, the
\* mapping decoded under dict_input['ModelConfiguration']
Sections(mc) ==
    Dict(<<Item("plant_details", Get(mc, "Plant_Details")),
           Item("methane_pyrolysis", Get(mc, "Methane_Pyrolysis")),
           Item("hydrogen_graphite", Get(mc, "Hydrogen_Graphite_Market")),
           Item("date_range",
                Dict(<<Item("start_date", Get(Get(mc, "DateRange"), "StartDate")),
                       Item("end_date", Get(Get(mc, "DateRange"), "EndDate"))>>)),
           Item("region_info",
                Dict(<<Item("global_region", Get(Get(mc, "Regions"), "GlobalRegion")),
                       Item("local_region",
                            IF HasKey(Get(mc, "Regions"), "LocalRegion")
                            THEN Get(Get(mc, "Regions"), "LocalRegion")
                            ELSE None),
                       Item("NG_API", Head(Get(mc, "NG_API").items).val)>>))>>)

\* parse_xml_config, lines 61-97: the error the call raises on the file f,
\* "" when it raises none.  ET.parse raises on a missing and on a truncated
\* file; a missing key raises KeyError, a leaf indexed like a mapping
\* TypeError, a leaf asked for its values AttributeError.
ReadError(f) ==
    IF f.st = "absent" THEN "FileNotFoundError"
    ELSE IF f.st = "partial" THEN "ParseError"
    ELSE IF ~HasKey(decode(f.doc), RootTag) THEN "KeyError"
    ELSE LET mc == Get(decode(f.doc), RootTag)
         IN  IF \E key \in {"Plant_Details", "Methane_Pyrolysis",
                             "Hydrogen_Graphite_Market", "DateRange"} : ~HasKey(mc, key)
             THEN "KeyError"
             ELSE IF Get(mc, "DateRange").k # "dict" THEN "TypeError"
             ELSE IF \E key \in {"StartDate", "EndDate"} : ~HasKey(Get(mc, "DateRange"), key)
             THEN "KeyError"
             ELSE IF ~HasKey(mc, "Regions") THEN "KeyError"
             ELSE IF Get(mc, "Regions").k # "dict" THEN "TypeError"
             ELSE IF ~HasKey(Get(mc, "Regions"), "GlobalRegion") THEN "KeyError"
             ELSE IF ~HasKey(mc, "NG_API") THEN "KeyError"
             ELSE IF Get(mc, "NG_API").k # "dict" THEN "AttributeError"
             ELSE ""

\* a reader that takes the local region of every document
parse_xml_config_strict(f) ==
    IF ReadError(f) # "" THEN [error |-> ReadError(f), ret |-> None]
    ELSE IF ~HasKey(Get(Get(decode(f.doc), RootTag), "Regions"), "LocalRegion")
    THEN [error |-> "KeyError", ret |-> None]
    ELSE [error |-> "", ret |-> Sections(Get(decode(f.doc), RootTag))]

\* parse_xml_config(xml_file): [error, ret]
parse_xml_config(f) ==
    IF ReadError(f) # "" THEN [error |-> ReadError(f), ret |-> None]
    ELSE [error |-> "", ret |-> Sections(Get(decode(f.doc), RootTag))]

----------------------------------------------------------------------------
(* model_setup: the tables of __init__ and the record sections *)

AUS == <<"A", "U", "S">>
USA == <<"U", "S", "A">>
EUR == <<"E", "U", "R">>
JKN == <<"J", "K", "N">>
\* self._GlobalRegion['Global region']
GlobalRegions == <<AUS, USA, EUR, JKN>>
\* self._NEMRegion['AUS region']
NEMRegions == <<<<"N", "S", "W", "1">>, <<"Q", "L", "D", "1">>, <<"V", "I", "C", "1">>, <<"S", "A", "1">>>>
\* self._NG_API
NG_API_table == <<[region |-> USA, api |-> <<"N", "G", "=", "F">>],
                  [region |-> EUR, api |-> <<"T", "T", "F", "=", "F">>],
                  [region |-> JKN, api |-> <<"J", "K", "N", "=", "F">>]>>

InSeq(x, xs) == \E i \in 1..Len(xs) : xs[i] = x

\* the fields __init__ sets, and those Plant_config sets, before their first
\* assignment
InitSelf ==
    [_GlblRegion |-> None, _AUSregion |-> None,
     _plant_size |-> None, _CAPEX |-> None, _OPEX |-> None,
     _PlantAvailability |-> None, _PlantEfficiency |-> None, _PlantLife |-> None]

\* Plant_config, lines 199-204
ResetPlant(obj) ==
    [obj EXCEPT !._plant_size = None, !._CAPEX = None, !._OPEX = None,
                !._PlantAvailability = None, !._PlantEfficiency = None,
                !._PlantLife = None]

\* the truthiness test that ends the plant loop
BatchComplete(obj) ==
    /\ Truthy(obj._plant_size) /\ Truthy(obj._CAPEX) /\ Truthy(obj._OPEX)
    /\ Truthy(obj._PlantAvailability) /\ Truthy(obj._PlantEfficiency)
    /\ Truthy(obj._PlantLife)

\* a section with the efficiency and the availability under each other's key
Plant_data_swapped(obj) ==
    Dict(<<Item("Plant_Capacity", obj._plant_size),
           Item("CAPEX", obj._CAPEX),
           Item("OPEX", obj._OPEX),
           Item("Plant_Efficiency", obj._PlantAvailability),
           Item("Availability", obj._PlantEfficiency),
           Item("Operating_Life_Years", obj._PlantLife),
           Item("Days_Per_Year", PyInt(365)),
           Item("Hours_Per_Day", PyInt(24)),
           Item("_5_Min_Per_Hour", PyInt(12))>>)

Plant_data(obj) ==
    Dict(<<Item("Plant_Capacity", obj._plant_size),
           Item("CAPEX", obj._CAPEX),
           Item("OPEX", obj._OPEX),
           Item("Plant_Efficiency", obj._PlantEfficiency),
           Item("Availability", obj._PlantAvailability),
           Item("Operating_Life_Years", obj._PlantLife),
           Item("Days_Per_Year", PyInt(365)),
           Item("Hours_Per_Day", PyInt(24)),
           Item("_5_Min_Per_Hour", PyInt(12))>>)

Methane_Pyrolysis ==
    Dict(<<Item("_H2_mole", PyFloat(FALSE, 2016, 3)),
           Item("_C_mole", PyFloat(FALSE, 12011, 3)),
           Item("_CH4_mole", PyFloat(FALSE, 16042, 3)),
           Item("_Fe_per_tonne_Graphite", PyFloat(FALSE, 2, 1)),
           Item("_MWh_per_tonne_Hydrogen", PyInt(9)),
           Item("_GJ_per_tonne_Graphite", PyInt(86))>>)

Hydrogen_Graphite_Market ==
    Dict(<<Item("Mole_Fe2O3", PyFloat(FALSE, 15969, 2)),
           Item("Mole_Fe", PyFloat(FALSE, 5584, 2)),
           Item("Ratio_H2_mole_Fe2O3", PyInt(3)),
           Item("Ratio_Fe_mole_Fe2O3", PyInt(2)),
           Item("Graphite_per_kWh", PyFloat(FALSE, 45, 2)),
           Item("kWh_per_EV", PyInt(300)),
           Item("kWh_per_BESS", PyInt(1500))>>)

\* what Plant_config returns once its loop has ended
Plant_config(obj) ==
    Dict(<<Item("Plant_Details", Plant_data(obj)),
           Item("Methane_Pyrolysis", Methane_Pyrolysis),
           Item("Hydrogen_Graphite_Market", Hydrogen_Graphite_Market)>>)

MsgNoApi == "Warning: No Natural Gas API configured for region"

\* a lookup that falls back on the first entry of the table for a region
\* the table does not hold
Natural_Gas_API_fallback(obj) ==
    [ret |-> Dict(<<Item("NG_API",
                         PyStr(IF \E i \in 1..Len(NG_API_table) :
                                      NG_API_table[i].region = obj._GlblRegion.s
                               THEN NG_API_table[CHOOSE i \in 1..Len(NG_API_table) :
                                        NG_API_table[i].region = obj._GlblRegion.s].api
                               ELSE NG_API_table[1].api))>>),
     msgs |-> <<>>]

\* a lookup that takes the first entry of the table for every region
Natural_Gas_API_first(obj) ==
    IF \E i \in 1..Len(NG_API_table) : NG_API_table[i].region = obj._GlblRegion.s
    THEN [ret |-> Dict(<<Item("NG_API", PyStr(NG_API_table[1].api))>>), msgs |-> <<>>]
    ELSE [ret |-> Dict(<<Item("NG_API", None)>>), msgs |-> <<MsgNoApi>>]

\* Natural_Gas_API: [ret, msgs]
Natural_Gas_API(obj) ==
    IF \E i \in 1..Len(NG_API_table) : NG_API_table[i].region = obj._GlblRegion.s
    THEN [ret |-> Dict(<<Item("NG_API",
                              PyStr(NG_API_table[CHOOSE i \in 1..Len(NG_API_table) :
                                        NG_API_table[i].region = obj._GlblRegion.s].api))>>),
          msgs |-> <<>>]
    ELSE [ret |-> Dict(<<Item("NG_API", None)>>), msgs |-> <<MsgNoApi>>]

\* a descriptor filtered by the global region instead of the local one
NEMOSIS_setup_global(obj) ==
    Dict(<<Item("table", PyStr(<<"D", "I", "S", "P", "A", "T", "C", "H", "P", "R", "I", "C", "E">>)),
           Item("select_columns", PyList(<<PyStr(<<"R", "E", "G", "I", "O", "N", "I", "D">>), PyStr(<<"R", "R", "P">>)>>)),
           Item("column_filter", PyStr(<<"R", "E", "G", "I", "O", "N", "I", "D">>)),
           Item("region_filter", obj._GlblRegion)>>)

NEMOSIS_setup(obj) ==
    Dict(<<Item("table", PyStr(<<"D", "I", "S", "P", "A", "T", "C", "H", "P", "R", "I", "C", "E">>)),
           Item("select_columns", PyList(<<PyStr(<<"R", "E", "G", "I", "O", "N", "I", "D">>), PyStr(<<"R", "R", "P">>)>>)),
           Item("column_filter", PyStr(<<"R", "E", "G", "I", "O", "N", "I", "D">>)),
           Item("region_filter", obj._AUSregion)>>)

\* strftime raises ValueError on NaT
CanFormat(d) == d.k = "Timestamp"

\* create_config_file, lines 288-303, on the pair select_daterange returned:
\* the error raised, or "" and the record begun.  Neither NaT nor a
\* Timestamp is None, and both are datetime instances, so the two checks
\* pass and NaT first fails in strftime.
BeginConfig(sd, ed, clk) ==
    IF sd = None \/ ed = None
    THEN [error |-> "ValueError", config |-> Dict(<<>>)]
    ELSE IF ~(sd.k \in {"Timestamp", "NaT"} /\ ed.k \in {"Timestamp", "NaT"})
    THEN [error |-> "ValueError", config |-> Dict(<<>>)]
    ELSE IF ~(CanFormat(sd) /\ CanFormat(ed))
    THEN [error |-> "ValueError", config |-> Dict(<<>>)]
    ELSE [error |-> "",
          config |-> Dict(<<Item("Timestamp", PyStr(strftime_stamp(clk))),
                            Item("DateRange",
                                 Dict(<<Item("StartDate", PyStr(strftime_date(sd.t))),
                                        Item("EndDate", PyStr(strftime_date(ed.t)))>>))>>)]

\* a record that takes the local region and the query descriptor from the
\* field of the object, whatever select_Region returned
CompleteConfig_stale(config, obj, info) ==
    LET regions == Dict(<<Item("GlobalRegion", Get(info, "global"))>>)
        api == Natural_Gas_API(obj)
        c1 == DictSet(DictSet(config, "Regions", regions), "NG_API", api.ret)
        c2 == IF obj._AUSregion # None
              THEN DictSet(DictSet(c1, "Regions",
                                   DictSet(regions, "LocalRegion", obj._AUSregion)),
                           "NEMOSISConfig", NEMOSIS_setup(obj))
              ELSE c1
    IN  [config |-> c2, msgs |-> api.msgs]

\* create_config_file, lines 318-329: the record completed from the region
\* selection; [config, msgs]
CompleteConfig(config, obj, info) ==
    LET regions == Dict(<<Item("GlobalRegion", Get(info, "global"))>>)
        api == Natural_Gas_API(obj)
        c1 == DictSet(DictSet(config, "Regions", regions), "NG_API", api.ret)
        c2 == IF HasKey(info, "local")
              THEN LET c3 == DictSet(c1, "Regions",
                                     DictSet(regions, "LocalRegion", Get(info, "local")))
                       nemosis_config == NEMOSIS_setup(obj)
                   IN  IF nemosis_config.items # <<>>
                       THEN DictSet(c3, "NEMOSISConfig", nemosis_config)
                       ELSE c3
              ELSE c1
    IN  [config |-> c2, msgs |-> api.msgs]

----------------------------------------------------------------------------
(* The run of create_config_file.  A step runs from one response on the    *)
(* input channel to the next call of input(), or to the end of the run.    *)

VARIABLES
    pc,           \* the prompt the run waits at, or idle / done / raised
    now,          \* datetime.now(), an instant
    resp,         \* the response the last prompt step consumed
    out,          \* the messages the last step printed
    err,          \* the error create_config_file raised, "" for none
    start_date,   \* select_daterange's start_date
    end_date,     \* select_daterange's end_date
    self,         \* the fields of the model_setup object
    region_info,  \* what select_Region returned
    config_data,  \* the record create_config_file builds
    file,         \* the destination: [st, doc]
    writes,       \* the calls of dict_to_xml in this run
    parsed,       \* dict_input, the mapping last decoded from the file
    entered,      \* the last response input() returned at each prompt of this run
    result,       \* what parse_xml_config last returned or raised, None before
    runs          \* the calls of create_config_file on the object so far

vars == <<pc, now, resp, out, err, start_date, end_date, self, region_info,
          config_data, file, writes, parsed, entered, result, runs>>

InitNow == 20231001
MaxNow == 20231002

NoFile == [st |-> "absent", doc |-> None]

MsgOrder == "Start date must be before or equal to end date."
MsgBatch == "Error: Please enter valid values for all fields"
MsgBadGlobal == "Invalid selection. Please choose from the global regions"
MsgBadLocal == "Invalid selection. Please choose from the Australian regions"
MsgSaved == "Configuration saved to"
MsgContents == "Configuration Contents:"
MsgError == "Error creating configuration:"

Say(msg) == IF msg = "" THEN <<>> ELSE <<msg>>

\* the prompts of a run, in the order of the source
Prompts ==
    <<"start_date", "end_date", "plant_size", "CAPEX", "OPEX", "PlantAvailability",
      "PlantEfficiency", "PlantLife", "global", "local">>

\* no prompt has been answered in this run
NoResponses == [p \in {Prompts[i] : i \in 1..Len(Prompts)} |-> <<>>]

Init ==
    /\ pc = "idle"
    /\ now = InitNow
    /\ resp = <<>>
    /\ out = <<>>
    /\ err = ""
    /\ start_date = None
    /\ end_date = None
    /\ self = InitSelf
    /\ region_info = None
    /\ config_data = Dict(<<>>)
    /\ file = NoFile
    /\ writes = 0
    /\ parsed = None
    /\ entered = NoResponses
    /\ result = None
    /\ runs = 0

\* the clock advances
Tick ==
    /\ now < MaxNow
    /\ now' = now + 1
    /\ UNCHANGED <<pc, resp, out, err, start_date, end_date, self, region_info,
                   config_data, file, writes, parsed, entered, result, runs>>

\* create_config_file is called and select_daterange asks for the start date
Call ==
    /\ pc = "idle"
    /\ pc' = "start_date"
    /\ runs' = runs + 1
    /\ UNCHANGED <<now, resp, out, err, start_date, end_date, self, region_info,
                   config_data, file, writes, parsed, entered, result>>

\* select_daterange, lines 144-147
PromptStartDate(r) ==
    /\ pc = "start_date"
    /\ LET v == validate_date(r, now)
       IN  /\ start_date' = v.ret
           /\ out' = Say(v.msg)
           /\ pc' = IF Truthy(v.ret) THEN "end_date" ELSE "start_date"
    /\ resp' = r /\ entered' = [entered EXCEPT ![pc] = r]
    /\ UNCHANGED <<now, err, end_date, self, region_info, config_data, file, writes, parsed, result, runs>>

\* select_daterange, lines 150-160: TRUE when the pair is returned
PairReturned(sd, ed) == Truthy(ed) /\ ~DateGreater(sd, ed)

\* select_daterange, lines 150-160, then create_config_file up to the first
\* prompt of Plant_config
PromptEndDate(r) ==
    /\ pc = "end_date"
    /\ resp' = r /\ entered' = [entered EXCEPT ![pc] = r]
    /\ LET v == validate_date(r, now)
           begun == BeginConfig(start_date, v.ret, now)
       IN  /\ end_date' = v.ret
           /\ IF ~PairReturned(start_date, v.ret)
              THEN /\ pc' = "start_date"
                   /\ out' = IF Truthy(v.ret) THEN <<MsgOrder>> ELSE Say(v.msg)
                   /\ UNCHANGED <<err, self, config_data>>
              ELSE IF begun.error # ""
              THEN /\ pc' = "raised"
                   /\ err' = begun.error
                   /\ out' = <<MsgError>>
                   /\ UNCHANGED <<self, config_data>>
              ELSE /\ pc' = "plant_size"
                   /\ config_data' = begun.config
                   /\ self' = ResetPlant(self)
                   /\ out' = <<>>
                   /\ UNCHANGED err
    /\ UNCHANGED <<now, start_date, region_info, file, writes, parsed, result, runs>>

PlantPrompts ==
    <<"plant_size", "CAPEX", "OPEX", "PlantAvailability", "PlantEfficiency", "PlantLife">>

\* a loop that goes back to the first field as soon as one field is rejected
NextPlantPrompt_restart(field, ret) ==
    IF ret = None THEN "plant_size"
    ELSE PlantPrompts[(CHOOSE i \in 1..Len(PlantPrompts) : PlantPrompts[i] = field) + 1]

\* the prompt that follows a field of the batch, whatever its validator
\* returned; the last field has none
NextPlantPrompt(field, ret) ==
    PlantPrompts[(CHOOSE i \in 1..Len(PlantPrompts) : PlantPrompts[i] = field) + 1]

\* Plant_config, lines 209-213: one field of the batch
PlantField(field, v) ==
    /\ pc = field
    /\ pc' = NextPlantPrompt(field, v.ret)
    /\ out' = Say(v.msg)
    /\ UNCHANGED <<now, err, start_date, end_date, region_info, config_data, file, writes, parsed, result, runs>>

PromptPlantSize(r) ==
    LET v == validate_integer(r)
    IN  PlantField("plant_size", v) /\ resp' = r /\ entered' = [entered EXCEPT ![pc] = r]
        /\ self' = [self EXCEPT !._plant_size = v.ret]

PromptCAPEX(r) ==
    LET v == validate_integer(r)
    IN  PlantField("CAPEX", v) /\ resp' = r /\ entered' = [entered EXCEPT ![pc] = r]
        /\ self' = [self EXCEPT !._CAPEX = v.ret]

PromptOPEX(r) ==
    LET v == validate_integer(r)
    IN  PlantField("OPEX", v) /\ resp' = r /\ entered' = [entered EXCEPT ![pc] = r]
        /\ self' = [self EXCEPT !._OPEX = v.ret]

PromptAvailability(r) ==
    LET v == validate_float(r)
    IN  PlantField("PlantAvailability", v) /\ resp' = r /\ entered' = [entered EXCEPT ![pc] = r]
        /\ self' = [self EXCEPT !._PlantAvailability = v.ret]

PromptEfficiency(r) ==
    LET v == validate_float(r)
    IN  PlantField("PlantEfficiency", v) /\ resp' = r /\ entered' = [entered EXCEPT ![pc] = r]
        /\ self' = [self EXCEPT !._PlantEfficiency = v.ret]

\* a rejected batch that sends the run back to select_daterange
PromptPlantLife_dates(r) ==
    /\ pc = "PlantLife"
    /\ resp' = r /\ entered' = [entered EXCEPT ![pc] = r]
    /\ LET v == validate_integer(r)
           obj == [self EXCEPT !._PlantLife = v.ret]
       IN  /\ self' = obj
           /\ IF BatchComplete(obj)
              THEN /\ pc' = "global"
                   /\ out' = Say(v.msg)
                   /\ config_data' = DictUpdate(config_data, Plant_config(obj))
              ELSE /\ pc' = "start_date"
                   /\ out' = Say(v.msg) \o <<MsgBatch>>
                   /\ UNCHANGED config_data
    /\ UNCHANGED <<now, err, start_date, end_date, region_info, file, writes, parsed, result, runs>>

\* Plant_config, lines 214-259, then create_config_file up to the first
\* prompt of select_Region
PromptPlantLife(r) ==
    /\ pc = "PlantLife"
    /\ resp' = r /\ entered' = [entered EXCEPT ![pc] = r]
    /\ LET v == validate_integer(r)
           obj == [self EXCEPT !._PlantLife = v.ret]
       IN  /\ self' = obj
           /\ IF BatchComplete(obj)
              THEN /\ pc' = "global"
                   /\ out' = Say(v.msg)
                   /\ config_data' = DictUpdate(config_data, Plant_config(obj))
              ELSE /\ pc' = "plant_size"
                   /\ out' = Say(v.msg) \o <<MsgBatch>>
                   /\ UNCHANGED config_data
    /\ UNCHANGED <<now, err, start_date, end_date, region_info, file, writes, parsed, result, runs>>

\* what the failed write leaves at the destination: the file as it was when
\* it could not be opened, a truncated file when the write broke off
FsOutcomes == {"ok", "open_fails", "write_fails"}

\* a write that is tried a second time when it broke off
Finish_retry(obj, info, fs) ==
    LET done == CompleteConfig(config_data, obj, info)
    IN  /\ region_info' = info
        /\ config_data' = done.config
        /\ writes' = IF fs = "write_fails" THEN writes + 2 ELSE writes + 1
        /\ IF fs = "ok"
           THEN /\ file' = [st |-> "written", doc |-> dict_to_xml(done.config)]
                /\ out' = done.msgs \o <<MsgSaved, MsgContents>>
                /\ pc' = "done"
                /\ UNCHANGED err
           ELSE /\ file' = IF fs = "open_fails" THEN file
                           ELSE [st |-> "partial", doc |-> None]
                /\ out' = done.msgs \o <<MsgError>>
                /\ pc' = "raised"
                /\ err' = "OSError"

\* a run that announces the saved file before it writes it
Finish_saved_first(obj, info, fs) ==
    LET done == CompleteConfig(config_data, obj, info)
    IN  /\ region_info' = info
        /\ config_data' = done.config
        /\ writes' = writes + 1
        /\ IF fs = "ok"
           THEN /\ file' = [st |-> "written", doc |-> dict_to_xml(done.config)]
                /\ out' = done.msgs \o <<MsgSaved, MsgContents>>
                /\ pc' = "done"
                /\ UNCHANGED err
           ELSE /\ file' = IF fs = "open_fails" THEN file
                           ELSE [st |-> "partial", doc |-> None]
                /\ out' = done.msgs \o <<MsgSaved, MsgError>>
                /\ pc' = "raised"
                /\ err' = "OSError"

\* create_config_file, lines 315-345, once select_Region has returned info
Finish(obj, info, fs) ==
    LET done == CompleteConfig(config_data, obj, info)
    IN  /\ region_info' = info
        /\ config_data' = done.config
        /\ writes' = writes + 1
        /\ IF fs = "ok"
           THEN /\ file' = [st |-> "written", doc |-> dict_to_xml(done.config)]
                /\ out' = done.msgs \o <<MsgSaved, MsgContents>>
                /\ pc' = "done"
                /\ UNCHANGED err
           ELSE /\ file' = IF fs = "open_fails" THEN file
                           ELSE [st |-> "partial", doc |-> None]
                /\ out' = done.msgs \o <<MsgError>>
                /\ pc' = "raised"
                /\ err' = "OSError"

\* select_Region, lines 167-175 and 186
PromptGlobal(r, fs) ==
    /\ pc = "global"
    /\ resp' = r /\ entered' = [entered EXCEPT ![pc] = r]
    /\ LET i == upper(r)
       IN  IF ~InSeq(i, GlobalRegions)
           THEN /\ out' = <<MsgBadGlobal>>
                /\ UNCHANGED <<pc, err, self, region_info, config_data, file, writes, parsed>>
           ELSE LET obj == [self EXCEPT !._GlblRegion = PyStr(i)]
                IN  /\ self' = obj
                    /\ IF i = AUS
                       THEN /\ pc' = "local"
                            /\ out' = <<>>
                            /\ UNCHANGED <<err, region_info, config_data, file, writes, parsed>>
                       ELSE Finish(obj, Dict(<<Item("global", PyStr(i))>>), fs)
    /\ UNCHANGED <<now, start_date, end_date, parsed, result, runs>>

\* select_Region, lines 178-184
PromptLocal(r, fs) ==
    /\ pc = "local"
    /\ resp' = r /\ entered' = [entered EXCEPT ![pc] = r]
    /\ LET j == upper(r)
       IN  IF ~InSeq(j, NEMRegions)
           THEN /\ out' = <<MsgBadLocal>>
                /\ UNCHANGED <<pc, err, self, region_info, config_data, file, writes, parsed>>
           ELSE LET obj == [self EXCEPT !._AUSregion = PyStr(j)]
                IN  /\ self' = obj
                    /\ Finish(obj, Dict(<<Item("global", self._GlblRegion),
                                          Item("local", PyStr(j))>>), fs)
    /\ UNCHANGED <<now, start_date, end_date, parsed, result, runs>>

\* parse_xml_config is called on the destination once a file is there
ParseConfig ==
    /\ file.st # "absent"
    /\ result' = parse_xml_config(file)
    /\ parsed' = IF file.st = "written" THEN decode(file.doc) ELSE parsed
    /\ UNCHANGED <<pc, now, resp, out, err, start_date, end_date, self, region_info,
                   config_data, file, writes, entered, runs>>

----------------------------------------------------------------------------
(* The operator's responses *)

DateResponses ==
    {<<"0", "1", "-", "0", "1", "-", "2", "0", "2", "3">>, <<"1", "0", "-", "0", "1", "-", "2", "0", "2", "3">>, <<"1", "0", "-", "0", "2", "-", "2", "0", "2", "3">>, <<"0", "1", "-", "0", "1", "-", "2", "0", "3", "0">>, <<"a", "b", "c">>,
     <<"2", "0", "2", "3", "-", "0", "1", "-", "0", "1", "T", "0", "0", ":", "0", "0", "Z">>}
PlantSizeResponses == {<<"4", "2">>, <<"1", "0", "0", "0">>, <<"0">>, <<"-", "1">>, <<"a", "b", "c">>, <<"4", ".", "5">>}
CAPEXResponses == {<<"5", "0">>, <<"0">>}
OPEXResponses == {<<"1", "0">>, <<"a", "b", "c">>}
AvailabilityResponses == {<<"0", ".", "9">>, <<"0">>, <<"-", "1", ".", "5">>, <<"n", "a", "n">>, <<"a", "b", "c">>}
EfficiencyResponses == {<<"0", ".", "8">>, <<"1">>, <<"0", ".", "0">>}
PlantLifeResponses == {<<"2", "0">>, <<"-", "1">>}
GlobalResponses == {<<"a", "u", "s">>, <<"A", "U", "S">>, <<"u", "s", "a">>, <<"E", "U", "R">>, <<"J", "k", "n">>, <<"x", "y", "z">>, <<"n", "s", "w", "1">>, <<" ", "u", "s", "a">>}
LocalResponses == {<<"n", "s", "w", "1">>, <<"Q", "L", "D", "1">>, <<"V", "i", "c", "1">>, <<"s", "a", "1">>, <<"a", "u", "s">>, <<>>}

Next ==
    \/ Tick
    \/ Call
    \/ \E r \in DateResponses : PromptStartDate(r)
    \/ \E r \in DateResponses : PromptEndDate(r)
    \/ \E r \in PlantSizeResponses : PromptPlantSize(r)
    \/ \E r \in CAPEXResponses : PromptCAPEX(r)
    \/ \E r \in OPEXResponses : PromptOPEX(r)
    \/ \E r \in AvailabilityResponses : PromptAvailability(r)
    \/ \E r \in EfficiencyResponses : PromptEfficiency(r)
    \/ \E r \in PlantLifeResponses : PromptPlantLife(r)
    \/ \E r \in GlobalResponses, fs \in FsOutcomes : PromptGlobal(r, fs)
    \/ \E r \in LocalResponses, fs \in FsOutcomes : PromptLocal(r, fs)
    \/ ParseConfig

Spec == Init /\ [][Next]_vars

----------------------------------------------------------------------------
(* The structure codec on its own: a nested mapping is written by          *)
(* dict_to_xml and the document is decoded again.                          *)

MaxDepth == 3

CodecLeaves ==
    {PyInt(42), PyInt(-3), PyFloat(FALSE, 2, 0), PyFloat(FALSE, 15, 1),
     NaN, PyStr(<<"a", "b", "c">>), PyStr(<<"4", "2">>), PyStr(<<>>)}

\* nested mappings of depth <= d over the keys a and b
RECURSIVE Mappings(_)
Mappings(d) ==
    IF d = 0 THEN {}
    ELSE LET vals == CodecLeaves \cup Mappings(d - 1)
         IN  {Dict(<<>>)}
             \cup {Dict(<<Item("a", v)>>) : v \in vals}
             \cup {Dict(<<Item("a", l), Item("b", v)>>) : l \in CodecLeaves, v \in vals}

InitCodec ==
    /\ pc = "encode"
    /\ config_data \in Mappings(MaxDepth)
    /\ now = InitNow
    /\ resp = <<>>
    /\ out = <<>>
    /\ err = ""
    /\ start_date = None
    /\ end_date = None
    /\ self = InitSelf
    /\ region_info = None
    /\ file = NoFile
    /\ writes = 0
    /\ parsed = None
    /\ entered = NoResponses
    /\ result = None
    /\ runs = 0

\* ConfigUtils.dict_to_xml(config_data, filename)
Encode ==
    /\ pc = "encode"
    /\ file' = [st |-> "written", doc |-> dict_to_xml(config_data)]
    /\ writes' = writes + 1
    /\ pc' = "decode"
    /\ UNCHANGED <<now, resp, out, err, start_date, end_date, self, region_info,
                   config_data, parsed, entered, result, runs>>

\* parse_xml_config, lines 63-81
Decode ==
    /\ pc = "decode"
    /\ parsed' = decode(file.doc)
    /\ pc' = "decoded"
    /\ UNCHANGED <<now, resp, out, err, start_date, end_date, self, region_info,
                   config_data, file, writes, entered, result, runs>>

NextCodec == Encode \/ Decode

SpecCodec == InitCodec /\ [][NextCodec]_vars

----------------------------------------------------------------------------
(* Several runs of create_config_file on one model_setup object, with an   *)
(* operator who answers each prompt acceptably in the end.                 *)

MaxRuns == 2

\* create_config_file is called again on the same object: the locals of the
\* call are new, the fields of the object and the destination are as the
\* earlier run left them
CallAgain ==
    /\ pc \in {"done", "raised"}
    /\ runs < MaxRuns
    /\ runs' = runs + 1
    /\ pc' = "start_date"
    /\ resp' = <<>>
    /\ out' = <<>>
    /\ err' = ""
    /\ start_date' = None
    /\ end_date' = None
    /\ region_info' = None
    /\ config_data' = Dict(<<>>)
    /\ writes' = 0
    /\ entered' = NoResponses
    /\ UNCHANGED <<now, self, file, parsed, result>>

RunDateResponses == {<<"0", "1", "-", "0", "1", "-", "2", "0", "2", "3">>, <<"1", "0", "-", "0", "1", "-", "2", "0", "2", "3">>, <<"0", "1", "-", "0", "1", "-", "2", "0", "3", "0">>, <<"a", "b", "c">>}
RunPlantSizeResponses == {<<"4", "2">>, <<"1", "0", "0", "0">>, <<"0">>}
RunCAPEXResponses == {<<"5", "0">>}
RunOPEXResponses == {<<"1", "0">>}
RunAvailabilityResponses == {<<"0", ".", "9">>}
RunEfficiencyResponses == {<<"0", ".", "8">>}
RunPlantLifeResponses == {<<"2", "0">>, <<"-", "1">>}
RunGlobalResponses == {<<"a", "u", "s">>, <<"u", "s", "a">>, <<"E", "U", "R">>, <<"x", "y", "z">>}
RunLocalResponses == {<<"n", "s", "w", "1">>, <<"a", "u", "s">>}

\* one step of the operator answering a prompt
StartDateStep == \E r \in RunDateResponses : PromptStartDate(r)
EndDateStep == \E r \in RunDateResponses : PromptEndDate(r)
PlantSizeStep == \E r \in RunPlantSizeResponses : PromptPlantSize(r)
CAPEXStep == \E r \in RunCAPEXResponses : PromptCAPEX(r)
OPEXStep == \E r \in RunOPEXResponses : PromptOPEX(r)
AvailabilityStep == \E r \in RunAvailabilityResponses : PromptAvailability(r)
EfficiencyStep == \E r \in RunEfficiencyResponses : PromptEfficiency(r)
PlantLifeStep == \E r \in RunPlantLifeResponses : PromptPlantLife(r)
GlobalStep == \E r \in RunGlobalResponses, fs \in FsOutcomes : PromptGlobal(r, fs)
LocalStep == \E r \in RunLocalResponses, fs \in FsOutcomes : PromptLocal(r, fs)

NextRuns ==
    \/ Tick
    \/ Call
    \/ CallAgain
    \/ StartDateStep
    \/ EndDateStep
    \/ PlantSizeStep
    \/ CAPEXStep
    \/ OPEXStep
    \/ AvailabilityStep
    \/ EfficiencyStep
    \/ PlantLifeStep
    \/ GlobalStep
    \/ LocalStep

\* the values a batch holds when the run waits at the given plant prompt
\* are all accepted ones
AcceptedSoFar ==
    \A i \in 1..Len(PlantPrompts) :
        (\E k \in i + 1..Len(PlantPrompts) : PlantPrompts[k] = pc) =>
            Truthy(CASE i = 1 -> self._plant_size
                     [] i = 2 -> self._CAPEX
                     [] i = 3 -> self._OPEX
                     [] i = 4 -> self._PlantAvailability
                     [] OTHER -> self._PlantEfficiency)

\* the operator answers a prompt of the plant batch
PlantStep ==
    \/ PlantSizeStep \/ CAPEXStep \/ OPEXStep
    \/ AvailabilityStep \/ EfficiencyStep \/ PlantLifeStep

\* the cooperative operator: they answer every prompt of a batch, and asked
\* again and again by a retry loop they give in the end a response the loop
\* accepts: a start date and an end date that end select_daterange, every
\* field of a batch after the accepted fields before it, a global and a
\* local region.  Each condition is strong fairness of the accepted
\* response, written with the position at which that response is possible
\* in place of ENABLED.
Cooperative ==
    /\ <>[](pc \in {PlantPrompts[i] : i \in 1..Len(PlantPrompts)}) =>
           []<><<PlantStep>>_vars
    /\ []<>(pc = "start_date") => []<><<StartDateStep /\ pc' = "end_date">>_vars
    /\ []<>(pc = "end_date") => []<><<EndDateStep /\ pc' # "start_date">>_vars
    /\ []<>(pc = "plant_size") =>
           []<><<PlantSizeStep /\ Truthy(self'._plant_size)>>_vars
    /\ []<>(pc = "CAPEX" /\ AcceptedSoFar) =>
           []<><<CAPEXStep /\ AcceptedSoFar /\ Truthy(self'._CAPEX)>>_vars
    /\ []<>(pc = "OPEX" /\ AcceptedSoFar) =>
           []<><<OPEXStep /\ AcceptedSoFar /\ Truthy(self'._OPEX)>>_vars
    /\ []<>(pc = "PlantAvailability" /\ AcceptedSoFar) =>
           []<><<AvailabilityStep /\ AcceptedSoFar
                 /\ Truthy(self'._PlantAvailability)>>_vars
    /\ []<>(pc = "PlantEfficiency" /\ AcceptedSoFar) =>
           []<><<EfficiencyStep /\ AcceptedSoFar
                 /\ Truthy(self'._PlantEfficiency)>>_vars
    /\ []<>(pc = "PlantLife" /\ AcceptedSoFar) =>
           []<><<PlantLifeStep /\ pc' = "global">>_vars
    /\ []<>(pc = "global") => []<><<GlobalStep /\ pc' # "global">>_vars
    /\ []<>(pc = "local") => []<><<LocalStep /\ pc' # "local">>_vars

SpecRuns == Init /\ [][NextRuns]_vars /\ Cooperative

----------------------------------------------------------------------------
(* The claims *)

IsDate(v) == v.k = "Timestamp"

\* a mapping with every integer-valued float replaced by the integer
RECURSIVE Collapse(_)
Collapse(v) ==
    CASE v.k = "dict" ->
            Dict([i \in 1..Len(v.items) |->
                    Item(v.items[i].key, Collapse(v.items[i].val))])
      [] v.k = "float" /\ v.e = 0 -> PyInt(IF v.neg THEN 0 - v.m ELSE v.m)
      [] OTHER -> v

\* C1: decoding the document dict_to_xml wrote for a mapping of depth <= 3
\* with string, integer and float leaves gives the mapping back under the
\* root key ModelConfiguration, integer-valued floats having become integers
\* and nothing else having changed.
C1_RoundTrip ==
    pc = "decoded" => parsed = Dict(<<Item(RootTag, Collapse(config_data))>>)

\* C2: validate_date returns None for a text that is no calendar date and
\* for a date later than now, and returns a date value only for a date that
\* parsed and is not later than now.
C2_ValidateDate ==
    [][(pc \in {"start_date", "end_date"} /\ now' = now) =>
         LET ret == IF pc = "start_date" THEN start_date' ELSE end_date'
             date == to_datetime(resp')
         IN  /\ ~IsDate(date) => ret = None
             /\ (IsDate(date) /\ date.t > now) => ret = None
             /\ ret # None => (IsDate(date) /\ date.t <= now /\ ret = date)]_vars

\* C3: no response of the operator makes the run end in a raised error: a
\* run that raises does so for the failed write alone.
C3_RejectionNeverFatal == pc = "raised" => err = "OSError"

\* C4: once select_daterange has returned, both dates are dates
\* validate_date accepted and start <= end; and an end date that is
\* rejected, or earlier than the start date, sends the loop back to the
\* start-date prompt.
C4_DateRange ==
    /\ [](pc \notin {"idle", "start_date", "end_date"} =>
            /\ IsDate(start_date) /\ IsDate(end_date)
            /\ start_date.t <= end_date.t)
    /\ [][(pc = "start_date" /\ now' = now /\ start_date' = None) =>
            pc' = "start_date"]_vars
    /\ [][(pc = "end_date" /\ now' = now
           /\ (end_date' = None \/ DateGreater(start_date, end_date'))) =>
            pc' = "start_date"]_vars

\* the responses of the model that denote an integer, with the integer
IntegerTexts ==
    {<<<<"4", "2">>, 42>>, <<<<"1", "0", "0", "0">>, 1000>>, <<<<"0">>, 0>>, <<<<"-", "1">>, 0 - 1>>,
     <<<<"5", "0">>, 50>>, <<<<"1", "0">>, 10>>, <<<<"2", "0">>, 20>>}

\* what the claim has validate_integer return for a response
IntegerExpected(r) ==
    IF \E p \in IntegerTexts : p[1] = r /\ p[2] >= 0
    THEN PyInt((CHOOSE p \in IntegerTexts : p[1] = r)[2])
    ELSE None

\* C5: validate_integer returns the integer for every response that
\* denotes an integer >= 0, zero included, and None for a negative integer
\* and for a text that is no integer.
C5_ValidateInteger ==
    /\ pc = "CAPEX" => self._plant_size = IntegerExpected(resp)
    /\ pc = "OPEX" => self._CAPEX = IntegerExpected(resp)
    /\ pc = "PlantAvailability" => self._OPEX = IntegerExpected(resp)

\* zero is accepted by the validator
C5_Witness == pc = "CAPEX" /\ resp = <<"0">> /\ self._plant_size = PyInt(0)

StrictlyPositive(v) ==
    CASE v.k = "int" -> v.v > 0
      [] v.k = "float" -> ~v.neg /\ v.m > 0
      [] v.k = "inf" -> ~v.neg
      [] OTHER -> FALSE

PlantInputs ==
    {"Plant_Capacity", "CAPEX", "OPEX", "Plant_Efficiency", "Availability",
     "Operating_Life_Years"}

\* C6: Plant_config returns only after a batch whose six values were all
\* accepted and are non-zero, so every value the operator supplied to
\* Plant_Details is strictly positive.
C6_PlantValuesPositive ==
    HasKey(config_data, "Plant_Details") =>
        \A key \in PlantInputs :
            StrictlyPositive(Get(Get(config_data, "Plant_Details"), key))

FailedOrZero(v) == v = None \/ v = PyInt(0) \/ (v.k = "float" /\ v.m = 0)

PlantValues(obj) ==
    {obj._plant_size, obj._CAPEX, obj._OPEX, obj._PlantAvailability,
     obj._PlantEfficiency, obj._PlantLife}

\* C7: in the plant loop every response is followed by the prompt of the
\* next field in the fixed order, whatever was rejected before it, and
\* after the last field of a batch with a failed or zero field the next
\* prompt is the capacity again: no field is asked again on its own.
C7_PlantBatchOrder ==
    [][now' = now =>
         /\ \A i \in 1..(Len(PlantPrompts) - 1) :
                pc = PlantPrompts[i] => pc' = PlantPrompts[i + 1]
         /\ pc = "PlantLife" =>
                /\ pc' \in {"plant_size", "global"}
                /\ (\E v \in PlantValues(self') : FailedOrZero(v)) =>
                       pc' = "plant_size"]_vars

\* the efficiency is asked for although the capacity of the same batch was
\* rejected
C7_Witness ==
    /\ pc = "PlantEfficiency"
    /\ self._plant_size = None
    /\ Truthy(self._PlantAvailability)

RegionCodes(xs) == {PyStr(xs[i]) : i \in 1..Len(xs)}

\* C8: the response is upper-cased before it is checked; the global region
\* is one of AUS, USA, EUR, JKN; the local region is asked for exactly when
\* the accepted global region is AUS, and the result carries a local
\* region, one of NSW1, QLD1, VIC1, SA1, exactly then; a rejected local
\* region is asked for again without the global region being asked again.
C8_RegionSelection ==
    /\ [](/\ self._GlblRegion \in RegionCodes(GlobalRegions) \cup {None}
          /\ pc = "local" => self._GlblRegion = PyStr(AUS)
          /\ region_info # None =>
                /\ Get(region_info, "global") \in RegionCodes(GlobalRegions)
                /\ Get(region_info, "global") = self._GlblRegion
                /\ HasKey(region_info, "local") <=>
                       Get(region_info, "global") = PyStr(AUS)
                /\ HasKey(region_info, "local") =>
                       Get(region_info, "local") \in RegionCodes(NEMRegions))
    /\ [][(pc = "global" /\ now' = now) =>
            /\ resp' \in {<<"a", "u", "s">>, <<"A", "U", "S">>} => pc' = "local"
            /\ resp' \in {<<"u", "s", "a">>, <<"E", "U", "R">>, <<"J", "k", "n">>} => pc' \in {"done", "raised"}
            /\ resp' \in {<<"x", "y", "z">>, <<"n", "s", "w", "1">>} => pc' = "global"
            /\ pc' = "local" <=> self'._GlblRegion = PyStr(AUS)]_vars
    /\ [][(pc = "local" /\ now' = now) =>
            /\ pc' \in {"local", "done", "raised"}
            /\ resp' \in {<<"n", "s", "w", "1">>, <<"Q", "L", "D", "1">>, <<"V", "i", "c", "1">>, <<"s", "a", "1">>} => pc' # "local"
            /\ resp' \in {<<"a", "u", "s">>, <<>>} => pc' = "local"]_vars

\* a lower-case aus was accepted and the local region is asked for
C8_Witness == pc = "local" /\ resp = <<"a", "u", "s">> /\ self._GlblRegion = PyStr(AUS)

HasChild(el, tag) == \E i \in 1..Len(el.kids) : el.kids[i].tag = tag
Child(el, tag) == el.kids[CHOOSE i \in 1..Len(el.kids) : el.kids[i].tag = tag]

\* C9 as stated: the document of a run whose global region is AUS holds no
\* price-feed entry.
C9_NoPriceFeedForAUS ==
    (file.st = "written" /\ region_info # None
     /\ Get(region_info, "global") = PyStr(AUS)) =>
        ~HasChild(file.doc, "NG_API")

\* C9, amended: the document of a completed run whose global region is AUS
\* holds the price-feed entry NG_API with no identifier of the table in it:
\* its one leaf holds the text None; the run printed the warning and
\* completed.
C9_PriceFeedForAUS ==
    (pc = "done" /\ Get(region_info, "global") = PyStr(AUS)) =>
        /\ file.st = "written"
        /\ HasChild(file.doc, "NG_API")
        /\ Child(file.doc, "NG_API").kids =
               <<Element("NG_API", PyStr(<<"N", "o", "n", "e">>), <<>>)>>
        /\ InSeq(MsgNoApi, out)

\* a run for AUS has completed
C9_Witness ==
    /\ pc = "done"
    /\ Get(region_info, "global") = PyStr(AUS)
    /\ file.st = "written"

\* C10: the record holds the electricity-market query descriptor exactly
\* when a local region was chosen, with table DISPATCHPRICE, columns
\* REGIONID and RRP, filter column REGIONID, and the LocalRegion of the same
\* record as its region filter.
C10_QueryDescriptor ==
    region_info # None =>
        /\ HasKey(config_data, "NEMOSISConfig") <=> HasKey(region_info, "local")
        /\ HasKey(config_data, "NEMOSISConfig") =>
              LET q == Get(config_data, "NEMOSISConfig")
              IN  /\ Get(q, "table") = PyStr(<<"D", "I", "S", "P", "A", "T", "C", "H", "P", "R", "I", "C", "E">>)
                  /\ Get(q, "select_columns") =
                         PyList(<<PyStr(<<"R", "E", "G", "I", "O", "N", "I", "D">>), PyStr(<<"R", "R", "P">>)>>)
                  /\ Get(q, "column_filter") = PyStr(<<"R", "E", "G", "I", "O", "N", "I", "D">>)
                  /\ HasKey(Get(config_data, "Regions"), "LocalRegion")
                  /\ Get(q, "region_filter") =
                         Get(Get(config_data, "Regions"), "LocalRegion")
                  /\ Get(q, "region_filter") = Get(region_info, "local")

\* a completed run for QLD1 holds the descriptor filtered by QLD1
C10_Witness ==
    /\ pc = "done"
    /\ HasKey(config_data, "NEMOSISConfig")
    /\ Get(Get(config_data, "NEMOSISConfig"), "region_filter") = PyStr(<<"Q", "L", "D", "1">>)

PromptStates == {Prompts[i] : i \in 1..Len(Prompts)}

\* C11: the document is written at most once in a run, and only once the
\* date range, the plant parameters and the region selection are in the
\* record; while the run still prompts, and in a run that was aborted
\* before the write, nothing has been written and the destination is as it
\* was.
C11_WriteOnce ==
    /\ writes <= 1
    /\ pc \in PromptStates \cup {"idle"} => (writes = 0 /\ file = NoFile)
    /\ (pc = "raised" /\ err = "ValueError") => (writes = 0 /\ file = NoFile)
    /\ writes = 1 =>
          /\ region_info # None
          /\ \A key \in {"DateRange", "Plant_Details", "Regions", "NG_API"} :
                 HasKey(config_data, key)
          /\ pc \in {"done", "raised"}
    /\ file.st = "written" => file.doc = dict_to_xml(config_data)

\* a run has written its document, once
C11_Witness ==
    /\ pc = "done"
    /\ writes = 1
    /\ file.st = "written"
    /\ entered["global"] = <<"E", "U", "R">>

\* C12: when the write fails the run ends by raising OSError, after the
\* error was reported on the output and without the confirmation
\* 'Configuration saved' or the dump of the record: these two are printed
\* only by a step that ends the run normally.
C12_WriteFailure ==
    /\ [](err = "OSError" =>
            /\ pc = "raised"
            /\ writes = 1
            /\ InSeq(MsgError, out)
            /\ ~InSeq(MsgSaved, out)
            /\ ~InSeq(MsgContents, out)
            /\ file.st # "written")
    /\ [][(InSeq(MsgSaved, out') \/ InSeq(MsgContents, out')) =>
             (pc' = "done" /\ err' = "")]_vars

\* the write broke off and the run raised OSError
C12_Witness ==
    /\ pc = "raised"
    /\ err = "OSError"
    /\ file.st = "partial"

\* C13 as stated: parse_xml_config on the document of a completed run
\* raises no error and returns the decoded mapping of the document, every
\* branch and leaf of it, under the root tag.
C13_ReturnsDecodedMapping ==
    (pc = "done" /\ result # None) =>
        (result.error = "" /\ result.ret = decode(file.doc))

\* C13, amended: parse_xml_config on the document of a completed run raises
\* no error and returns five sections taken from the decoded mapping:
\* plant_details, methane_pyrolysis and hydrogen_graphite are the decoded
\* branches Plant_Details, Methane_Pyrolysis and Hydrogen_Graphite_Market,
\* date_range holds the decoded StartDate and EndDate, region_info holds the
\* decoded GlobalRegion, the decoded LocalRegion or None, and the decoded
\* leaf of NG_API; Timestamp and NEMOSISConfig are not returned.
C13_ReturnsSections ==
    (pc = "done" /\ result # None) =>
        LET mc == Get(decode(file.doc), RootTag)
            ret == result.ret
        IN  /\ result.error = ""
            /\ parsed = decode(file.doc)
            /\ [i \in 1..Len(ret.items) |-> ret.items[i].key] =
                   <<"plant_details", "methane_pyrolysis", "hydrogen_graphite",
                     "date_range", "region_info">>
            /\ Get(ret, "plant_details") = Get(mc, "Plant_Details")
            /\ Get(ret, "methane_pyrolysis") = Get(mc, "Methane_Pyrolysis")
            /\ Get(ret, "hydrogen_graphite") = Get(mc, "Hydrogen_Graphite_Market")
            /\ Get(ret, "date_range") =
                   Dict(<<Item("start_date", Get(Get(mc, "DateRange"), "StartDate")),
                          Item("end_date", Get(Get(mc, "DateRange"), "EndDate"))>>)
            /\ Get(Get(ret, "region_info"), "global_region") =
                   Get(Get(mc, "Regions"), "GlobalRegion")
            /\ Get(Get(ret, "region_info"), "local_region") =
                   (IF HasKey(region_info, "local") THEN Get(region_info, "local") ELSE None)
            /\ Get(Get(ret, "region_info"), "NG_API") = Get(Get(mc, "NG_API"), "NG_API")
            /\ HasKey(mc, "Timestamp")
            /\ HasKey(mc, "NEMOSISConfig") <=> HasKey(region_info, "local")

\* the document of a completed run without a local region has been read
C13_Witness ==
    /\ pc = "done"
    /\ result # None
    /\ result.error = ""
    /\ ~HasKey(region_info, "local")
    /\ Get(Get(result.ret, "region_info"), "local_region") = None

\* the record the first run on a new object builds from the responses e,
\* with the given Timestamp
FreshRecord(e, stamp) ==
    LET g == upper(e["global"])
        obj == [InitSelf EXCEPT
                   !._plant_size = validate_integer(e["plant_size"]).ret,
                   !._CAPEX = validate_integer(e["CAPEX"]).ret,
                   !._OPEX = validate_integer(e["OPEX"]).ret,
                   !._PlantAvailability = validate_float(e["PlantAvailability"]).ret,
                   !._PlantEfficiency = validate_float(e["PlantEfficiency"]).ret,
                   !._PlantLife = validate_integer(e["PlantLife"]).ret,
                   !._GlblRegion = PyStr(g),
                   !._AUSregion = IF g = AUS THEN PyStr(upper(e["local"])) ELSE None]
        info == IF g = AUS
                THEN Dict(<<Item("global", PyStr(g)), Item("local", PyStr(upper(e["local"])))>>)
                ELSE Dict(<<Item("global", PyStr(g))>>)
        begun == BeginConfig(validate_date(e["start_date"], now).ret,
                             validate_date(e["end_date"], now).ret, now).config
        record == CompleteConfig(DictUpdate(begun, Plant_config(obj)), obj, info).config
    IN  DictSet(record, "Timestamp", stamp)

\* C14: the record of every run on an object that has run before is the
\* record a first run on a new object builds from the responses of that run
\* and its Timestamp; the record of a run for USA after a run for AUS holds
\* no LocalRegion, no NEMOSISConfig and the identifier of USA.
C14_RunsIndependent ==
    region_info # None =>
        /\ config_data = FreshRecord(entered, Get(config_data, "Timestamp"))
        /\ file.st = "written" /\ pc = "done" => file.doc = dict_to_xml(config_data)
        /\ Get(region_info, "global") = PyStr(USA) =>
              /\ ~HasKey(Get(config_data, "Regions"), "LocalRegion")
              /\ ~HasKey(config_data, "NEMOSISConfig")
              /\ Get(Get(config_data, "NG_API"), "NG_API") = PyStr(<<"N", "G", "=", "F">>)

\* the second run is for USA on an object whose earlier run was for AUS
C14_Witness ==
    /\ runs = 2
    /\ pc = "done"
    /\ Get(region_info, "global") = PyStr(USA)
    /\ self._AUSregion = PyStr(<<"N", "S", "W", "1">>)

\* C15: the record of a run whose accepted global region is USA, EUR or JKN
\* holds, as its price-feed identifier, NG=F for USA, TTF=F for EUR and
\* JKN=F for JKN, the region being the GlobalRegion of the same record.
C15_PriceFeedTable ==
    region_info # None =>
        LET g == Get(Get(config_data, "Regions"), "GlobalRegion")
            id == Get(Get(config_data, "NG_API"), "NG_API")
        IN  /\ g = Get(region_info, "global")
            /\ g = PyStr(upper(entered["global"]))
            /\ g = PyStr(USA) => id = PyStr(<<"N", "G", "=", "F">>)
            /\ g = PyStr(EUR) => id = PyStr(<<"T", "T", "F", "=", "F">>)
            /\ g = PyStr(JKN) => id = PyStr(<<"J", "K", "N", "=", "F">>)
            /\ Keys(Get(config_data, "NG_API")) = {"NG_API"}

\* a run for JKN has stored the identifier of JKN
C15_Witness ==
    /\ pc = "done"
    /\ Get(Get(config_data, "Regions"), "GlobalRegion") = PyStr(JKN)
    /\ Get(Get(config_data, "NG_API"), "NG_API") = PyStr(<<"J", "K", "N", "=", "F">>)

\* the accepted date responses with the day they denote, read month first,
\* as YYYY-MM-DD
DateTexts ==
    {<<<<"0", "1", "-", "0", "1", "-", "2", "0", "2", "3">>, <<"2", "0", "2", "3", "-", "0", "1", "-", "0", "1">>>>, <<<<"1", "0", "-", "0", "1", "-", "2", "0", "2", "3">>, <<"2", "0", "2", "3", "-", "1", "0", "-", "0", "1">>>>,
     <<<<"1", "0", "-", "0", "2", "-", "2", "0", "2", "3">>, <<"2", "0", "2", "3", "-", "1", "0", "-", "0", "2">>>>}

DateExpected(r) == PyStr((CHOOSE p \in DateTexts : p[1] = r)[2])

\* the accepted float responses with their values
FloatTexts ==
    {<<<<"0", ".", "9">>, PyFloat(FALSE, 9, 1)>>, <<<<"0", ".", "8">>, PyFloat(FALSE, 8, 1)>>,
     <<<<"1">>, PyFloat(FALSE, 1, 0)>>, <<<<"n", "a", "n">>, NaN>>}

FloatExpected(r) == (CHOOSE p \in FloatTexts : p[1] = r)[2]

LeafTexts ==
    {<<<<"4", "2">>, PyInt(42)>>, <<<<"-", "3">>, PyInt(-3)>>, <<<<"2", ".", "0">>, PyInt(2)>>,
     <<<<"1", ".", "5">>, PyFloat(FALSE, 15, 1)>>, <<<<"n", "a", "n">>, NaN>>, <<<<"a", "b", "c">>, PyStr(<<"a", "b", "c">>)>>}

\* a node without text has none to parse and keeps it
LeafExpected(text) ==
    IF text = None THEN None
    ELSE (CHOOSE p \in LeafTexts : p[1] = text.s)[2]

\* d is what the rule makes of the children of el
RECURSIVE LeafRule(_, _)
LeafRule(el, d) ==
    /\ d.k = "dict"
    /\ Keys(d) = {el.kids[i].tag : i \in 1..Len(el.kids)}
    /\ \A i \in 1..Len(el.kids) :
          IF el.kids[i].kids # <<>>
          THEN LeafRule(el.kids[i], Get(d, el.kids[i].tag))
          ELSE Get(d, el.kids[i].tag) = LeafExpected(el.kids[i].text)

\* C17: a node of the document without children is decoded to the integer
\* when its text reads as a float with no fractional part, to the float when
\* it reads as another float, and to its text when it does not read as a
\* float; a node with children is decoded to a mapping of its children.
C17_LeafRule ==
    pc = "decoded" =>
        /\ Keys(parsed) = {RootTag}
        /\ LeafRule(file.doc, Get(parsed, RootTag))

\* the leaves 2.0 and abc under a branch have been decoded
C17_Witness ==
    /\ pc = "decoded"
    /\ config_data = Dict(<<Item("a", PyFloat(FALSE, 2, 0)),
                            Item("b", Dict(<<Item("a", PyStr(<<"a", "b", "c">>))>>))>>)
    /\ Get(Get(parsed, RootTag), "a") = PyInt(2)
    /\ Get(Get(Get(parsed, RootTag), "b"), "a") = PyStr(<<"a", "b", "c">>)

\* the phase of a run a position belongs to: 1 the date range, 2 the plant
\* parameters, 3 the region selection, 4 the run has ended
Phase(p) ==
    CASE p = "idle" -> 0
      [] p \in {"start_date", "end_date"} -> 1
      [] p \in {PlantPrompts[i] : i \in 1..Len(PlantPrompts)} -> 2
      [] p \in {"global", "local"} -> 3
      [] OTHER -> 4

\* C18: a step of a run stays in its phase, enters the next one, or ends
\* the run with an error; the record grows in the same order: it holds the
\* date range from the plant phase on, the plant parameters from the region
\* phase on, and the regions, the price feed and the document only when the
\* run has ended, the document written last, from the completed record.  A
\* rejected batch leads to the first plant prompt and a rejected region to
\* the same region prompt.
C18_PhaseOrder ==
    /\ [][\/ Phase(pc') = Phase(pc)
          \/ Phase(pc') = Phase(pc) + 1
          \/ pc' = "raised"]_vars
    /\ [][(pc = "PlantLife" /\ pc' # pc) =>
             pc' = IF BatchComplete(self') THEN "global" ELSE "plant_size"]_vars
    /\ [][(pc \in {"global", "local"} /\ region_info' = None /\ self' = self)
             => pc' = pc]_vars
    /\ [](/\ HasKey(config_data, "DateRange") <=> Phase(pc) \in {2, 3} \/ pc = "done" \/ err = "OSError"
          /\ HasKey(config_data, "Plant_Details") <=> Phase(pc) = 3 \/ pc = "done" \/ err = "OSError"
          /\ HasKey(config_data, "Regions") <=> pc = "done" \/ err = "OSError"
          /\ HasKey(config_data, "NG_API") <=> HasKey(config_data, "Regions")
          /\ file.st = "written" <=> pc = "done"
          /\ pc = "done" => file.doc = dict_to_xml(config_data))

\* a rejected batch has led back to the first plant prompt, the dates kept
C18_Witness ==
    /\ pc = "plant_size"
    /\ InSeq(MsgBatch, out)
    /\ IsDate(start_date)
    /\ HasKey(config_data, "DateRange")

\* C19: with a cooperative operator every run leaves its retry loops and
\* ends having written the document exactly once.  A run may also end
\* because the write failed, so this reads: a run that has ended, and not by
\* a failed write, has ended normally with the document written once.
C19_EndsWritten ==
    (pc \in {"done", "raised"} /\ err # "OSError") =>
        /\ pc = "done"
        /\ writes = 1
        /\ file.st = "written"
        /\ file.doc = dict_to_xml(config_data)

\* the half of C19 that holds: with a cooperative operator every run that
\* prompts comes to an end, normally or by an error
C19_RunsEnd == (pc \in PromptStates) ~> (pc \in {"done", "raised"})

====
